---- MODULE Spec2Model ----
(***************************************************************************)
(* BoatId mobile client: the HTTP client wrapper (HttpClient), the domain  *)
(* API client (BoatApiService), the camera hook (useCameraIdentification)  *)
(* and the application shell (App).                                        *)
(*                                                                         *)
(* One action is one event-loop task: an external completion (camera       *)
(* callback, fetch settling, body read) together with the promise          *)
(* continuations it makes runnable, which JavaScript runs to completion    *)
(* before the next task.  React commits the state set during a task before *)
(* the next press is dispatched, so the rendered props equal the state.    *)
(*                                                                         *)
(* Strings that the code inspects or assembles piecewise (endpoints, URLs, *)
(* query strings) are sequences of tokens, every '/', '?', '&' and '='     *)
(* being a token of its own.  Messages are TLA+ strings.                   *)
(***************************************************************************)
EXTENDS Integers, Sequences, FiniteSets, TLC

\* ------------------------------------------------------------------ bounds
\* Number of captureAndIdentify calls the user may start (call slots 1..MaxCalls).
MaxCalls == 2

\* ------------------------------------------------------------- basic values
\* JavaScript undefined for an optional string field.
Absent == "<absent>"
\* Optional non-string values: <<>> is undefined, <<v>> is the value v.
None == <<>>
Some(v) == <<v>>

\* JavaScript truthiness of an optional string: undefined and '' are falsy.
Truthy(v) == v # Absent /\ v # ""
\* The JavaScript expression  v || d  on optional strings.
OrElse(v, d) == IF Truthy(v) THEN v ELSE d
\* Boolean.prototype.toString
BoolToString(b) == IF b THEN "true" ELSE "false"

\* Array.prototype.join(sep) on a sequence of strings.
RECURSIVE Join(_, _)
Join(seq, sep) ==
    IF seq = <<>> THEN ""
    ELSE IF Len(seq) = 1 THEN seq[1]
    ELSE seq[1] \o sep \o Join(Tail(seq), sep)

\* The promise outcomes of an async function.
Pending == [kind |-> "pending"]
Return(v) == [kind |-> "return", value |-> v]
Throw(m) == [kind |-> "throw", message |-> m]

\* import { API_BASE_URL } from '../config/api'
API_BASE_URL == "API_BASE_URL"

\* ------------------------------------------------------------ HttpClient
\* Response.ok
Ok(status) == status >= 200 /\ status <= 299

\* The URL makeRequest fetches: the base, a slash, the endpoint without its
\* leading slash.
\* Variant: the endpoint is used as given.
UrlAsGiven(endpoint) == <<API_BASE_URL, "/">> \o endpoint
Url(endpoint) ==
    <<API_BASE_URL, "/">> \o
        (IF endpoint # <<>> /\ Head(endpoint) = "/" THEN Tail(endpoint) ELSE endpoint)

\* A response body as received: text that JSON.parse rejects, or a JSON value.
Unparseable == [kind |-> "unparseable"]
Json(v) == [kind |-> "json", value |-> v]
\* The JSON value null.
JsonNull == [null |-> TRUE]

\* fetch(url, options) rejected: no response at all.
NetworkFailure == [kind |-> "rejected", message |-> "Network request failed"]
Response(status, statusText, body) ==
    [kind |-> "response", status |-> status, statusText |-> statusText, body |-> body]

\* The message of the Error makeRequest throws for a non-ok response.
\* Reading a property of null throws inside the try, as a rejected json() does.
\* Variant: the body's message takes precedence over its detail.
ErrorMessageMessageFirst(resp) ==
    LET errorMessage == "HTTP " \o ToString(resp.status) \o ": " \o resp.statusText
    IN  IF resp.body.kind = "unparseable" \/ resp.body.value = JsonNull
        THEN errorMessage
        ELSE OrElse(resp.body.value.message, OrElse(resp.body.value.detail, errorMessage))
ErrorMessage(resp) ==
    LET errorMessage == "HTTP " \o ToString(resp.status) \o ": " \o resp.statusText
    IN  IF resp.body.kind = "unparseable" \/ resp.body.value = JsonNull
        THEN errorMessage
        ELSE OrElse(resp.body.value.detail, OrElse(resp.body.value.message, errorMessage))

\* What makeRequest settles with once the body of a received response is read.
\* Variant: an ok body whose success flag is false is turned into an error.
MakeRequestResultUnwrapped(resp) ==
    IF ~Ok(resp.status) THEN Throw(ErrorMessage(resp))
    ELSE IF resp.body.kind = "unparseable" THEN Throw("JSON Parse error")
    ELSE IF "success" \in DOMAIN resp.body.value /\ ~resp.body.value.success
         THEN Throw("Identification failed")
    ELSE Return(resp.body.value)
MakeRequestResult(resp) ==
    IF ~Ok(resp.status) THEN Throw(ErrorMessage(resp))
    ELSE IF resp.body.kind = "unparseable" THEN Throw("JSON Parse error")
    ELSE Return(resp.body.value)

\* The options HttpClient.get / post / uploadFile hand to makeRequest.
NoHeaders == <<>>
\* JSON.stringify(body); undefined stays undefined.
Stringify(bodyOpt) == IF bodyOpt = None THEN None ELSE Some([json |-> bodyOpt[1]])
Get(endpoint) ==
    [method |-> "GET", url |-> Url(endpoint), headers |-> NoHeaders, body |-> None]
Post(endpoint, bodyOpt) ==
    [method |-> "POST", url |-> Url(endpoint),
     headers |-> <<<<"Content-Type", "application/json">>>>, body |-> Stringify(bodyOpt)]
UploadFile(endpoint, formData) ==
    [method |-> "POST", url |-> Url(endpoint), headers |-> NoHeaders,
     body |-> Some(formData)]

\* --------------------------------------------------------- BoatApiService
\* How fetch(uri) and response.blob() on the captured image can end.
BlobOutcomes == {"blob", "not_ok", "fetch_rejected", "blob_rejected"}

\* uriToBlob(uri), given how the fetch of the image ended.
UriToBlob(r) ==
    CASE r = "blob" -> Return("blob")
      [] r = "not_ok" -> Throw("Failed to fetch image from URI: ")
      [] r = "fetch_rejected" -> Throw("Network request failed")
      [] r = "blob_rejected" -> Throw("Failed to read blob")

\* The multipart parts createFormData appends, in order.  The file name carries
\* the time of the call; its value plays no part in any decision.
Filename == "boat_image_<timestamp>.jpg"
\* Variant: the store_results part is left out.
FormDataNoStoreFlag(imageUri, requestedFields, storeResults) ==
    << [name |-> "image",
        value |-> [uri |-> imageUri, type |-> "image/jpeg", name |-> Filename]],
       [name |-> "requested_fields", value |-> Join(requestedFields, ",")] >>
FormData(imageUri, requestedFields, storeResults) ==
    << [name |-> "image",
        value |-> [uri |-> imageUri, type |-> "image/jpeg", name |-> Filename]],
       [name |-> "requested_fields", value |-> Join(requestedFields, ",")],
       [name |-> "store_results", value |-> BoolToString(storeResults)] >>

\* createFormData: any failure of uriToBlob is replaced by one fixed error.
\* Variant: the error of uriToBlob is passed on as it is.
CreateFormDataRethrows(imageUri, requestedFields, storeResults, r) ==
    IF UriToBlob(r).kind = "throw"
    THEN UriToBlob(r)
    ELSE Return(FormData(imageUri, requestedFields, storeResults))
CreateFormData(imageUri, requestedFields, storeResults, r) ==
    IF UriToBlob(r).kind = "throw"
    THEN Throw("Failed to prepare image for upload")
    ELSE Return(FormData(imageUri, requestedFields, storeResults))

\* identifyBoat's arguments as given (<<>> for an omitted one) and after the
\* parameter defaults.
DefaultRequestedFields == <<"make", "model", "description", "boat_type">>
IdentifyArgs(imageUri, fieldsOpt, storeOpt) ==
    [name |-> "identifyBoat", given |-> <<fieldsOpt, storeOpt>>, imageUri |-> imageUri,
     requestedFields |-> IF fieldsOpt = None THEN DefaultRequestedFields ELSE fieldsOpt[1],
     storeResults |-> IF storeOpt = None THEN TRUE ELSE storeOpt[1]]
IdentifyEndpoint == <<"boats", "/", "identify">>

\* application/x-www-form-urlencoded serialisation of one name or value: of
\* the values used here only the space needs encoding (as '+').
Encode(v) == IF v = "Sea Ray" THEN "Sea+Ray" ELSE v
Decode(v) == IF v = "Sea+Ray" THEN "Sea Ray" ELSE v

\* URLSearchParams.toString(): name=value pairs joined by '&'.
RECURSIVE QueryTokens(_)
QueryTokens(params) ==
    IF params = <<>> THEN <<>>
    ELSE <<Encode(params[1][1]), "=", Encode(params[1][2])>> \o
         (IF Len(params) = 1 THEN <<>> ELSE <<"&">> \o QueryTokens(Tail(params)))

\* getIdentifications' arguments as given and after the parameter defaults, and
\* the endpoint it requests.
NoFilters == [isBoat |-> None, make |-> Absent, boatType |-> Absent, confidence |-> Absent]
DefaultPage == 1
DefaultPerPage == 50
ListArgs(pageOpt, perPageOpt, filtersOpt) ==
    [name |-> "getIdentifications", given |-> <<pageOpt, perPageOpt, filtersOpt>>,
     page |-> IF pageOpt = None THEN DefaultPage ELSE pageOpt[1],
     perPage |-> IF perPageOpt = None THEN DefaultPerPage ELSE perPageOpt[1],
     filters |-> IF filtersOpt = None THEN NoFilters ELSE filtersOpt[1]]
\* Variant: isBoat is tested for truthiness, so false is dropped.
QueryParamsDropFalse(page, perPage, filters) ==
    <<  <<"page", ToString(page)>>, <<"per_page", ToString(perPage)>>  >>
    \o (IF filters.isBoat # None /\ filters.isBoat[1]
        THEN << <<"is_boat", BoolToString(filters.isBoat[1])>> >> ELSE <<>>)
    \o (IF Truthy(filters.make) THEN << <<"make", filters.make>> >> ELSE <<>>)
    \o (IF Truthy(filters.boatType) THEN << <<"boat_type", filters.boatType>> >> ELSE <<>>)
    \o (IF Truthy(filters.confidence)
        THEN << <<"confidence", filters.confidence>> >> ELSE <<>>)
QueryParams(page, perPage, filters) ==
    <<  <<"page", ToString(page)>>, <<"per_page", ToString(perPage)>>  >>
    \o (IF filters.isBoat # None
        THEN << <<"is_boat", BoolToString(filters.isBoat[1])>> >> ELSE <<>>)
    \o (IF Truthy(filters.make) THEN << <<"make", filters.make>> >> ELSE <<>>)
    \o (IF Truthy(filters.boatType) THEN << <<"boat_type", filters.boatType>> >> ELSE <<>>)
    \o (IF Truthy(filters.confidence)
        THEN << <<"confidence", filters.confidence>> >> ELSE <<>>)
ListEndpoint(page, perPage, filters) ==
    <<"boats", "/", "identifications", "?">> \o QueryTokens(QueryParams(page, perPage, filters))

\* ------------------------------------------------------------ data values
\* BoatDetails, restricted to the fields the application reads.
Details(make, model, description, year, boat_type) ==
    [make |-> make, model |-> model, description |-> description, year |-> year,
     boat_type |-> boat_type]
\* BoatIdentificationResponse
Result(success, id, is_boat, details, confidence, message) ==
    [success |-> success, identification_id |-> id, filename |-> Filename,
     is_boat |-> is_boat, boat_details |-> details, confidence |-> confidence,
     message |-> message]

\* Identification results the server sends in the application runs.  An ok
\* body is taken to be a BoatIdentificationResponse object, as identifyBoat
\* types it.
Results ==
    { Result(TRUE, Some(7), TRUE,
             Some(Details("Sea Ray", "SPX 190", "A bowrider", "2019", "Bowrider")),
             "high", Absent),
      Result(TRUE, None, TRUE, None, Absent, Absent),
      Result(TRUE, Some(8), FALSE, None, Absent, Absent),
      Result(FALSE, None, FALSE, None, Absent, "Could not analyse image") }

\* Every combination of present, empty and absent optional fields.
AllDetails ==
    {None} \cup
    { Some(Details(mk, md, ds, yr, bt)) :
        mk \in {Absent, "", "Sea Ray"}, md \in {Absent, "", "SPX 190"},
        ds \in {Absent, "", "A bowrider"}, yr \in {Absent, "", "2019"},
        bt \in {Absent, "", "Bowrider"} }
AllResults ==
    { Result(TRUE, id, b, d, c, m) :
        id \in {None, Some(0), Some(7)}, b \in BOOLEAN, d \in AllDetails,
        c \in {Absent, "", "high"}, m \in {Absent} }

\* BoatIdentificationListResponse, as far as a caller of makeRequest sees it.
ListPage == [results |-> <<>>, total_count |-> 0, page |-> 1, per_page |-> 50,
             total_pages |-> 0]

\* Bodies of non-ok responses.
ErrorBodies ==
    {Unparseable, Json(JsonNull)} \cup
    { Json([detail |-> d, message |-> m]) :
        d \in {Absent, "", "Invalid image"}, m \in {Absent, "", "Server says no"} }

\* What the server may answer to a request whose ok body is one of values.
ServerResponses(values) ==
    { Response(st[1], st[2], b) :
        st \in {<<200, "OK">>, <<201, "Created">>},
        b \in {Unparseable} \cup {Json(v) : v \in values} }
    \cup
    { Response(st[1], st[2], b) :
        st \in {<<404, "Not Found">>, <<500, "Internal Server Error">>},
        b \in ErrorBodies }

\* ------------------------------------------------------------- components
\* Whether a press on the component calls onPress, given the disabled prop it
\* was rendered with.  FeatureItem declares no disabled prop and always
\* forwards the press; Button detaches onPress while disabled.
FeatureItemForwardsPress(disabled) == TRUE
ButtonForwardsPress(disabled) == ~disabled

\* The ImagePickerResponse values launchCamera may call back with.
PhotoUri == "file:///photo.jpg"
CameraResponses ==
    { [didCancel |-> TRUE, errorMessage |-> Absent, assets |-> None],
      [didCancel |-> FALSE, errorMessage |-> "Camera unavailable", assets |-> None],
      [didCancel |-> FALSE, errorMessage |-> Absent, assets |-> None],
      [didCancel |-> FALSE, errorMessage |-> Absent, assets |-> Some(<<[uri |-> Absent]>>)],
      [didCancel |-> FALSE, errorMessage |-> Absent,
       assets |-> Some(<<[uri |-> PhotoUri]>>)] }

\* What launchCameraFunction's promise resolves to; Absent stands for null.
LaunchCameraResult(response) ==
    IF response.didCancel \/ Truthy(response.errorMessage) THEN Absent
    ELSE IF response.assets # None /\ response.assets[1] # <<>>
            /\ Truthy(response.assets[1][1].uri)
         THEN response.assets[1][1].uri
         ELSE Absent

\* ---------------------------------------------------------------- alerts
\* String.prototype.trim() on a text held as a sequence of lines: leading and
\* trailing empty lines go.
RECURSIVE TrimStart(_)
TrimStart(lines) ==
    IF lines # <<>> /\ Head(lines) = "" THEN TrimStart(Tail(lines)) ELSE lines
RECURSIVE TrimEnd(_)
TrimEnd(lines) ==
    IF lines # <<>> /\ lines[Len(lines)] = ""
    THEN TrimEnd(SubSeq(lines, 1, Len(lines) - 1)) ELSE lines
Trim(lines) == TrimEnd(TrimStart(lines))

Alert(title, lines) == [title |-> title, message |-> lines]

\* details?.field
DetailField(details, f) == IF details = None THEN Absent ELSE details[1][f]

\* Variant: an absent year is left blank.
ResultAlertBlankYear(result) ==
    IF result.is_boat
    THEN LET details == result.boat_details
         IN  Alert("Success!", Trim(<<
                 "",
                 "Boat Identified!",
                 "",
                 "Make: " \o OrElse(DetailField(details, "make"), "Unknown"),
                 "Model: " \o OrElse(DetailField(details, "model"), "Unknown"),
                 "Type: " \o OrElse(DetailField(details, "boat_type"), "Unknown"),
                 "Year: " \o OrElse(DetailField(details, "year"), ""),
                 "Confidence: " \o OrElse(result.confidence, "Unknown"),
                 "",
                 OrElse(DetailField(details, "description"), "") >>))
    ELSE Alert("No Boat Detected",
               <<OrElse(result.message, "The image does not appear to contain a boat.")>>)
\* The alert handleCameraPress shows for a result (the boat emoji of the
\* first line is left out).
ResultAlert(result) ==
    IF result.is_boat
    THEN LET details == result.boat_details
         IN  Alert("Success!", Trim(<<
                 "",
                 "Boat Identified!",
                 "",
                 "Make: " \o OrElse(DetailField(details, "make"), "Unknown"),
                 "Model: " \o OrElse(DetailField(details, "model"), "Unknown"),
                 "Type: " \o OrElse(DetailField(details, "boat_type"), "Unknown"),
                 "Year: " \o OrElse(DetailField(details, "year"), "Unknown"),
                 "Confidence: " \o OrElse(result.confidence, "Unknown"),
                 "",
                 OrElse(DetailField(details, "description"), "") >>))
    ELSE Alert("No Boat Detected",
               <<OrElse(result.message, "The image does not appear to contain a boat.")>>)

\* identification_id || 'Not stored' : undefined and 0 are falsy.
IdText(id) == IF id = None \/ id[1] = 0 THEN "Not stored" ELSE ToString(id[1])

\* The alert handleIdentificationPress shows.
LastResultAlert(history) ==
    IF Len(history) = 0
    THEN Alert("No History",
               <<"No boat identifications yet. Use the camera to identify a boat!">>)
    ELSE LET lastIdentification == history[1]
             details == lastIdentification.boat_details
         IN  IF lastIdentification.is_boat
             THEN Alert("Last Result", Trim(<<
                     "",
                     "Last Identification:",
                     "",
                     "Make: " \o OrElse(DetailField(details, "make"), "Unknown"),
                     "Model: " \o OrElse(DetailField(details, "model"), "Unknown"),
                     "Type: " \o OrElse(DetailField(details, "boat_type"), "Unknown"),
                     "Description: "
                         \o OrElse(DetailField(details, "description"), "No description"),
                     "Confidence: " \o OrElse(lastIdentification.confidence, "Unknown"),
                     "ID: " \o IdText(lastIdentification.identification_id) >>))
             ELSE Alert("Last Result", <<"Previous image was not identified as a boat.">>)

\* The alert handleStoragePress shows.
StorageAlert(history) ==
    LET totalIdentifications == Len(history)
        boatIdentifications == Cardinality({i \in 1..Len(history) : history[i].is_boat})
    IN  Alert("Storage Info",
              << "Total identifications: " \o ToString(totalIdentifications),
                 "Boats found: " \o ToString(boatIdentifications),
                 "Non-boats: " \o ToString(totalIdentifications - boatIdentifications) >>)

AuthAlert == Alert("Authentication", <<"User login system coming soon!">>)

\* The alert of captureAndIdentify's catch block.
ErrorAlert(message) == Alert("Error", <<"Failed to identify boat: " \o message>>)

\* ------------------------------------------------ hook and handler bodies
\* Variant: the error alert leaves the message out.
CaptureAndIdentifyEndNoMessage(o, last) ==
    IF o.kind = "return"
    THEN [settled |-> o, lastResult |-> Some(o.value), alerts |-> <<>>,
          isProcessing |-> FALSE, trace |-> <<"setLastResult">>]
    ELSE [settled |-> o, lastResult |-> last,
          alerts |-> <<Alert("Error", <<"Failed to identify boat">>)>>,
          isProcessing |-> FALSE, trace |-> <<"errorAlert">>]
\* captureAndIdentify from the point where its try block ends with outcome o
\* (the result of identifyBoat, or the error thrown inside the try): what it
\* stores, shows and settles with.  The finally block clears isProcessing.
CaptureAndIdentifyEnd(o, last) ==
    IF o.kind = "return"
    THEN [settled |-> o, lastResult |-> Some(o.value), alerts |-> <<>>,
          isProcessing |-> FALSE, trace |-> <<"setLastResult">>]
    ELSE [settled |-> o, lastResult |-> last, alerts |-> <<ErrorAlert(o.message)>>,
          isProcessing |-> FALSE, trace |-> <<"errorAlert">>]

\* Variant: only boats are added to the history.
HandleCameraPressEndBoatsOnly(h, history) ==
    IF h.kind = "return"
    THEN [history |-> IF h.value.is_boat THEN <<h.value>> \o history ELSE history,
          alerts |-> <<ResultAlert(h.value)>>,
          caught |-> FALSE, trace |-> <<"setIdentificationHistory", "alert">>]
    ELSE [history |-> history, alerts |-> <<>>, caught |-> TRUE,
          trace |-> <<"console.error">>]
\* Variant: the alert is shown before the history is updated.
HandleCameraPressEndAlertFirst(h, history) ==
    IF h.kind = "return"
    THEN [history |-> <<h.value>> \o history, alerts |-> <<ResultAlert(h.value)>>,
          caught |-> FALSE, trace |-> <<"alert", "setIdentificationHistory">>]
    ELSE [history |-> history, alerts |-> <<>>, caught |-> TRUE,
          trace |-> <<"console.error">>]
\* Variant: the result is added at the end of the history.
HandleCameraPressEndAppend(h, history) ==
    IF h.kind = "return"
    THEN [history |-> history \o <<h.value>>, alerts |-> <<ResultAlert(h.value)>>,
          caught |-> FALSE, trace |-> <<"setIdentificationHistory", "alert">>]
    ELSE [history |-> history, alerts |-> <<>>, caught |-> TRUE,
          trace |-> <<"console.error">>]
\* handleCameraPress from the point where captureAndIdentify settled with h.
HandleCameraPressEnd(h, history) ==
    IF h.kind = "return"
    THEN [history |-> <<h.value>> \o history, alerts |-> <<ResultAlert(h.value)>>,
          caught |-> FALSE, trace |-> <<"setIdentificationHistory", "alert">>]
    ELSE [history |-> history, alerts |-> <<>>, caught |-> TRUE,
          trace |-> <<"console.error">>]

\* The fields handleCameraPress asks for.
AppRequestedFields == <<"make", "model", "description", "boat_type", "year">>

\* ------------------------------------------------------------------ state
\* Slot 0 is a caller that uses BoatApiService / HttpClient directly; slots
\* 1..MaxCalls are the captureAndIdentify calls started from the screen.
Calls == 1..MaxCalls
Slots == 0..MaxCalls

VARIABLES
    pc,         \* per slot: "idle", "camera", "blob", "fetch", "body", "done"
    op,         \* per slot: the operation called and its arguments
    issued,     \* per slot: the requests makeRequest handed to fetch, in order
    resp,       \* per slot: the response whose body is being read
    outcome,    \* per slot: how the call settled
    trace,      \* per slot: the steps the call has taken, in order
    delivered,  \* per slot: the camera response and the image-fetch outcome
                \* the call was resumed with
    alerts,     \* per slot: the alerts shown on behalf of the call
    caught,     \* per slot: handleCameraPress's catch block ran
    started,    \* number of captureAndIdentify calls started
    isProcessing,           \* useCameraIdentification state
    lastResult,             \* useCameraIdentification state
    identificationHistory,  \* App state
    viewAlert   \* the latest alert shown by a handler that only reads state

slotVars == <<pc, op, issued, resp, outcome, trace, delivered>>
appVars == <<alerts, caught, started, isProcessing, lastResult, identificationHistory,
             viewAlert>>
vars == <<pc, op, issued, resp, outcome, trace, delivered, alerts, caught, started, isProcessing,
          lastResult, identificationHistory, viewAlert>>

NoOp == [name |-> "none"]
NoResponse == [kind |-> "none"]

Init ==
    /\ pc = [s \in Slots |-> "idle"]
    /\ op = [s \in Slots |-> NoOp]
    /\ issued = [s \in Slots |-> <<>>]
    /\ resp = [s \in Slots |-> NoResponse]
    /\ outcome = [s \in Slots |-> Pending]
    /\ trace = [s \in Slots |-> <<>>]
    /\ delivered = [s \in Slots |-> [camera |-> None, image |-> None]]
    /\ alerts = [s \in Slots |-> <<>>]
    /\ caught = [s \in Slots |-> FALSE]
    /\ started = 0
    /\ isProcessing = FALSE
    /\ lastResult = None
    /\ identificationHistory = <<>>
    /\ viewAlert = None

\* ------------------------------------------------------- settling a call
\* The call in slot s, having taken steps, settles with outcome o (what it was
\* resumed with is recorded by the completion that resumes it).  For a captureAndIdentify call
\* the rest of the hook and of handleCameraPress run in the same task.
Settle(s, o, steps) ==
    IF s \in Calls
    THEN LET hook == CaptureAndIdentifyEnd(o, lastResult)
             app == HandleCameraPressEnd(hook.settled, identificationHistory)
         IN  /\ pc' = [pc EXCEPT ![s] = "done"]
             /\ outcome' = [outcome EXCEPT ![s] = hook.settled]
             /\ lastResult' = hook.lastResult
             /\ isProcessing' = hook.isProcessing
             /\ identificationHistory' = app.history
             /\ alerts' = [alerts EXCEPT ![s] = @ \o hook.alerts \o app.alerts]
             /\ caught' = [caught EXCEPT ![s] = app.caught]
             /\ trace' = [trace EXCEPT ![s] = @ \o steps \o hook.trace \o app.trace]
             /\ resp' = [resp EXCEPT ![s] = NoResponse]
             /\ UNCHANGED <<op, issued, started, viewAlert>>
    ELSE /\ pc' = [pc EXCEPT ![s] = "done"]
         /\ outcome' = [outcome EXCEPT ![s] = o]
         /\ resp' = [resp EXCEPT ![s] = NoResponse]
         /\ trace' = [trace EXCEPT ![s] = @ \o steps]
         /\ UNCHANGED <<op, issued>>
         /\ UNCHANGED appVars

\* Variant: the request is sent a second time.
IssueRequestTwice(s, request, steps) ==
    /\ pc' = [pc EXCEPT ![s] = "fetch"]
    /\ issued' = [issued EXCEPT ![s] = Append(Append(@, request), request)]
    /\ trace' = [trace EXCEPT ![s] = @ \o steps]
\* makeRequest up to its fetch call: the request goes out and the call waits.
IssueRequest(s, request, steps) ==
    /\ pc' = [pc EXCEPT ![s] = "fetch"]
    /\ issued' = [issued EXCEPT ![s] = Append(@, request)]
    /\ trace' = [trace EXCEPT ![s] = @ \o steps]

\* ------------------------------------------------------ the screen's presses
\* handleCameraPress up to the first await: captureAndIdentify sets
\* isProcessing and launches the camera.
StartCapture(s) ==
    /\ s = started + 1
    /\ s \in Calls
    /\ started' = s
    /\ isProcessing' = TRUE
    /\ pc' = [pc EXCEPT ![s] = "camera"]
    /\ op' = [op EXCEPT ![s] = [name |-> "captureAndIdentify",
                                requestedFields |-> AppRequestedFields]]
    /\ UNCHANGED <<issued, resp, outcome, trace, delivered, alerts, caught, lastResult,
                   identificationHistory, viewAlert>>

\* The 'Identify Boat' feature item, rendered with disabled={isProcessing}.
PressIdentifyBoat ==
    /\ FeatureItemForwardsPress(isProcessing)
    /\ \E s \in Calls : StartCapture(s)

\* The 'Capture & Identify Boat' button, rendered with disabled={isProcessing}.
PressCaptureButton ==
    /\ ButtonForwardsPress(isProcessing)
    /\ \E s \in Calls : StartCapture(s)

ShowViewAlert(alert) ==
    /\ viewAlert' = Some(alert)
    /\ UNCHANGED slotVars
    /\ UNCHANGED <<alerts, caught, started, isProcessing, lastResult,
                   identificationHistory>>

\* The 'View Results (n)' feature item, rendered with
\* disabled={identificationHistory.length === 0}.
PressViewResults ==
    /\ FeatureItemForwardsPress(Len(identificationHistory) = 0)
    /\ ShowViewAlert(LastResultAlert(identificationHistory))

\* The 'View Last Result' button, rendered only while the history is non-empty.
PressViewLastResult ==
    /\ Len(identificationHistory) > 0
    /\ ButtonForwardsPress(FALSE)
    /\ ShowViewAlert(LastResultAlert(identificationHistory))

\* The 'Storage Stats' and 'User Authentication' feature items.
PressStorageStats ==
    /\ FeatureItemForwardsPress(FALSE)
    /\ ShowViewAlert(StorageAlert(identificationHistory))
PressAuth ==
    /\ FeatureItemForwardsPress(FALSE)
    /\ ShowViewAlert(AuthAlert)

\* --------------------------------------------------------- completions
\* launchCamera calls back: captureAndIdentify resumes after its first await.
\* Variant: the image URI is not checked before identifyBoat is called.
CameraCallbackUnchecked(s, response) ==
    /\ pc[s] = "camera"
    /\ delivered' = [delivered EXCEPT ![s].camera = Some(response)]
    /\ pc' = [pc EXCEPT ![s] = "blob"]
    /\ op' = [op EXCEPT ![s] =
                IdentifyArgs(LaunchCameraResult(response), Some(op[s].requestedFields),
                             Some(TRUE))]
    /\ trace' = [trace EXCEPT ![s] = Append(@, "capture")]
    /\ UNCHANGED <<issued, resp, outcome>>
    /\ UNCHANGED appVars
CameraCallback(s, response) ==
    /\ pc[s] = "camera"
    /\ delivered' = [delivered EXCEPT ![s].camera = Some(response)]
    /\ LET imageUri == LaunchCameraResult(response)
       IN  IF ~Truthy(imageUri)
           THEN /\ Settle(s, Throw("No image captured"), <<>>)
           ELSE /\ pc' = [pc EXCEPT ![s] = "blob"]
                /\ op' = [op EXCEPT ![s] =
                            IdentifyArgs(imageUri, Some(op[s].requestedFields), Some(TRUE))]
                /\ trace' = [trace EXCEPT ![s] = Append(@, "capture")]
                /\ UNCHANGED <<issued, resp, outcome>>
                /\ UNCHANGED appVars

\* The fetch of the image inside uriToBlob ends with r: createFormData either
\* fails, or identifyBoat goes on to uploadFile and makeRequest's fetch.
ImageFetched(s, r) ==
    /\ pc[s] = "blob"
    /\ delivered' = [delivered EXCEPT ![s].image = Some(r)]
    /\ LET formData == CreateFormData(op[s].imageUri, op[s].requestedFields,
                                      op[s].storeResults, r)
       IN  IF formData.kind = "throw"
           THEN Settle(s, formData, <<>>)
           ELSE /\ IssueRequest(s, UploadFile(IdentifyEndpoint, formData.value),
                                <<"multipart", "post">>)
                /\ UNCHANGED <<op, resp, outcome>>
                /\ UNCHANGED appVars

\* makeRequest's fetch settles: it rejects, or a response arrives and
\* makeRequest goes on to read its body.
FetchSettled(s, r) ==
    /\ pc[s] = "fetch"
    /\ UNCHANGED delivered
    /\ IF r.kind = "rejected"
       THEN Settle(s, Throw(r.message), <<>>)
       ELSE /\ pc' = [pc EXCEPT ![s] = "body"]
            /\ resp' = [resp EXCEPT ![s] = r]
            /\ trace' = [trace EXCEPT ![s] = Append(@, "response")]
            /\ UNCHANGED <<op, issued, outcome>>
            /\ UNCHANGED appVars

\* response.json() settles and makeRequest returns or throws.
BodyRead(s) ==
    /\ pc[s] = "body"
    /\ UNCHANGED delivered
    /\ LET o == MakeRequestResult(resp[s])
       IN  Settle(s, o, IF o.kind = "return" THEN <<"json">> ELSE <<>>)

\* ----------------------------------------------------- the application
\* What the server may answer to an upload in the application runs.
AppAnswers ==
    {NetworkFailure} \cup
    { Response(200, "OK", b) : b \in {Unparseable} \cup {Json(v) : v \in Results} } \cup
    { Response(500, "Internal Server Error", b) :
        b \in { Unparseable, Json([detail |-> "Invalid image", message |-> Absent]),
                Json([detail |-> Absent, message |-> Absent]) } }

Next ==
    \/ PressIdentifyBoat
    \/ PressCaptureButton
    \/ PressViewResults
    \/ PressViewLastResult
    \/ PressStorageStats
    \/ PressAuth
    \/ \E s \in Calls : \E response \in CameraResponses : CameraCallback(s, response)
    \/ \E s \in Calls : \E r \in BlobOutcomes : ImageFetched(s, r)
    \/ \E s \in Calls : \E r \in AppAnswers : FetchSettled(s, r)
    \/ \E s \in Calls : BodyRead(s)

Spec == Init /\ [][Next]_vars

\* ------------------------------------------------ the service layer alone
\* A caller other than the screen uses BoatApiService and HttpClient directly
\* (slot 0), one call, with every kind of argument and every kind of answer.
FieldLists == {<<"make">>, <<"make", "model", "year">>, <<>>}
Endpoints == { <<"boats", "/", "identification-fields">>,
               <<"/", "boats", "/", "identification-fields">>,
               <<"/", "/", "boats", "/", "identification-fields">>,
               <<"boats", "/", "identifications", "/", "7">> }
FilterRecords ==
    [isBoat : {None, Some(TRUE), Some(FALSE)}, make : {Absent, "", "Sea Ray"},
     boatType : {Absent, "", "Bowrider"}, confidence : {Absent, "high", "low"}]

\* BoatApiService.identifyBoat(imageUri, requestedFields?, storeResults?)
CallIdentifyBoat(imageUri, fieldsOpt, storeOpt) ==
    /\ pc[0] = "idle"
    /\ pc' = [pc EXCEPT ![0] = "blob"]
    /\ op' = [op EXCEPT ![0] = IdentifyArgs(imageUri, fieldsOpt, storeOpt)]
    /\ UNCHANGED <<issued, resp, outcome, trace, delivered>>
    /\ UNCHANGED appVars

\* BoatApiService.getIdentifications(page?, perPage?, filters?)
CallGetIdentifications(pageOpt, perPageOpt, filtersOpt) ==
    /\ pc[0] = "idle"
    /\ LET args == ListArgs(pageOpt, perPageOpt, filtersOpt)
       IN  /\ op' = [op EXCEPT ![0] = args]
           /\ IssueRequest(0, Get(ListEndpoint(args.page, args.perPage, args.filters)),
                           <<"get">>)
    /\ UNCHANGED <<resp, outcome, delivered>>
    /\ UNCHANGED appVars

\* HttpClient.get(endpoint), as getIdentificationById and getAvailableFields use it.
CallGet(endpoint) ==
    /\ pc[0] = "idle"
    /\ op' = [op EXCEPT ![0] = [name |-> "get", endpoint |-> endpoint]]
    /\ IssueRequest(0, Get(endpoint), <<"get">>)
    /\ UNCHANGED <<resp, outcome, delivered>>
    /\ UNCHANGED appVars

\* HttpClient.post(endpoint, body?)
CallPost(endpoint, bodyOpt) ==
    /\ pc[0] = "idle"
    /\ op' = [op EXCEPT ![0] = [name |-> "post", endpoint |-> endpoint, body |-> bodyOpt]]
    /\ IssueRequest(0, Post(endpoint, bodyOpt), <<"post">>)
    /\ UNCHANGED <<resp, outcome, delivered>>
    /\ UNCHANGED appVars

\* What the server may answer to the request the direct caller is waiting on.
AnswersTo(s) ==
    {NetworkFailure} \cup
    ServerResponses(IF op[s].name = "identifyBoat" THEN Results ELSE {ListPage})

NextApi ==
    \/ \E fieldsOpt \in {None} \cup {Some(f) : f \in FieldLists} :
         \E storeOpt \in {None, Some(TRUE), Some(FALSE)} :
            CallIdentifyBoat(PhotoUri, fieldsOpt, storeOpt)
    \/ \E pageOpt \in {None, Some(1), Some(2)} : \E perPageOpt \in {None, Some(10)} :
         \E filtersOpt \in {None} \cup {Some(f) : f \in FilterRecords} :
            CallGetIdentifications(pageOpt, perPageOpt, filtersOpt)
    \/ \E endpoint \in Endpoints : CallGet(endpoint)
    \/ \E endpoint \in Endpoints : \E bodyOpt \in {None, Some([q |-> "x"])} :
         CallPost(endpoint, bodyOpt)
    \/ \E r \in BlobOutcomes : ImageFetched(0, r)
    \/ \E r \in AnswersTo(0) : FetchSettled(0, r)
    \/ BodyRead(0)

SpecApi == Init /\ [][NextApi]_vars

\* ------------------------------------------------- rendering of results
\* One identification from the screen, the server answering with any result.
PhotoTaken == [didCancel |-> FALSE, errorMessage |-> Absent,
               assets |-> Some(<<[uri |-> PhotoUri]>>)]
NextRender ==
    \/ started = 0 /\ PressCaptureButton
    \/ CameraCallback(1, PhotoTaken)
    \/ ImageFetched(1, "blob")
    \/ \E v \in AllResults : FetchSettled(1, Response(200, "OK", Json(v)))
    \/ BodyRead(1)
    \/ PressViewResults
    \/ PressViewLastResult

SpecRender == Init /\ [][NextRender]_vars

\* ------------------------------------------------------------- fairness
\* The camera calls back, the local image is read and a received response's
\* body is read; nothing makes a fetch to the server settle.
FairSpec ==
    /\ Spec
    /\ WF_vars(\E s \in Calls : \E response \in CameraResponses : CameraCallback(s, response))
    /\ WF_vars(\E s \in Calls : \E r \in BlobOutcomes : ImageFetched(s, r))
    /\ WF_vars(\E s \in Calls : BodyRead(s))

\* =================================================================== claims
Range(seq) == {seq[i] : i \in DOMAIN seq}
\* The status line makeRequest starts from.
StatusLine(r) == "HTTP " \o ToString(r.status) \o ": " \o r.statusText
\* The call in slot s has an upload (POST boats/identify) outstanding.
Uploading(s) == pc[s] \in {"fetch", "body"}
\* The call in slot s ended without a successfully parsed response.
Failed(s) == pc[s] = "done" /\ "json" \notin Range(trace[s])

\* C1: at most one upload is in flight at a time: in no reachable state do two
\* captureAndIdentify calls have a POST boats/identify outstanding.
AtMostOneUploadInFlight == Cardinality({s \in Calls : Uploading(s)}) <= 1

\* C2 as stated: a non-ok response makes makeRequest throw the body's detail
\* when the body has one, and the status line otherwise.
ThrowsDetailElseStatusLine ==
    [][\A s \in Slots :
         (pc[s] = "body" /\ ~Ok(resp[s].status) /\ pc'[s] = "done") =>
            outcome'[s] =
                Throw(IF resp[s].body.kind = "json" /\ resp[s].body.value # JsonNull
                         /\ resp[s].body.value.detail # Absent
                      THEN resp[s].body.value.detail
                      ELSE StatusLine(resp[s]))]_vars

\* C2 amended: a non-ok response never makes makeRequest return; it throws the
\* body's detail when that is a non-empty string, else the body's message when
\* that is a non-empty string, else (neither, a null body, or a body that is
\* not JSON) the status line.
ThrowsDetailElseMessageElseStatusLine ==
    [][\A s \in Slots :
         (pc[s] = "body" /\ ~Ok(resp[s].status) /\ pc'[s] = "done") =>
            LET b == resp[s].body
                object == b.kind = "json" /\ b.value # JsonNull
            IN  /\ outcome'[s].kind = "throw"
                /\ outcome'[s].message =
                     CASE object /\ b.value.detail \notin {Absent, ""} -> b.value.detail
                       [] object /\ b.value.detail \in {Absent, ""}
                          /\ b.value.message \notin {Absent, ""} -> b.value.message
                       [] OTHER -> StatusLine(resp[s])]_vars
\* A direct call failed with the body's message, the body having no detail.
ThrewBodyMessage ==
    /\ pc[0] = "done"
    /\ outcome[0] = Throw("Server says no")

\* C3: a request whose fetch is outstanding does not stay pending forever: it
\* eventually settles and the captureAndIdentify call that made it finishes.
UploadEventuallySettles ==
    \A s \in Calls : (pc[s] = "fetch") ~> (pc[s] = "done")

\* The number of HttpClient calls (get, post, uploadFile) slot s has made.
RECURSIVE HttpCalls(_)
HttpCalls(tr) ==
    IF tr = <<>> THEN 0
    ELSE (IF Head(tr) \in {"get", "post"} THEN 1 ELSE 0) + HttpCalls(Tail(tr))
IdentifyRequest(request) ==
    request.method = "POST" /\ request.url = <<API_BASE_URL, "/", "boats", "/", "identify">>

\* C4 as stated: every finished call has issued exactly one request, and a
\* finished identifyBoat call exactly one POST to boats/identify.
ExactlyOneRequestPerCall ==
    \A s \in Slots :
        pc[s] = "done" /\ op[s].name # "captureAndIdentify" =>
            /\ Len(issued[s]) = 1
            /\ op[s].name = "identifyBoat" => IdentifyRequest(issued[s][1])

\* C4 amended: every HttpClient call issues exactly one request whatever the
\* outcome, none is retried, and an identifyBoat call issues exactly one POST
\* to boats/identify once the image is prepared and none when preparing the
\* image fails.
OneRequestPerHttpCall ==
    \A s \in Slots :
        /\ Len(issued[s]) = HttpCalls(trace[s])
        /\ op[s].name = "identifyBoat" =>
              /\ Len(issued[s]) = (IF "multipart" \in Range(trace[s]) THEN 1 ELSE 0)
              /\ \A i \in DOMAIN issued[s] : IdentifyRequest(issued[s][i])
        /\ op[s].name \in {"get", "post", "getIdentifications"} => Len(issued[s]) = 1
\* An upload failed on the network and the call is over with its one request.
FailedUploadNotRetried ==
    /\ pc[0] = "done"
    /\ op[0].name = "identifyBoat"
    /\ outcome[0] = Throw("Network request failed")
    /\ Len(issued[0]) = 1

\* The calls that completed successfully (captureAndIdentify returned a result).
Succeeded == {s \in Calls : pc[s] = "done" /\ outcome[s].kind = "return"}

\* C5: every identification that completes successfully adds exactly one entry
\* (its result) to identificationHistory, a failed or cancelled one adds none,
\* no step removes, reorders or changes an entry, and so the length of the list
\* is the number of successfully completed identifications.
HistoryHoldsCompletedResults ==
    /\ [](Len(identificationHistory) = Cardinality(Succeeded))
    /\ [][\/ /\ identificationHistory' = identificationHistory
             /\ Succeeded' = Succeeded
          \/ \E s \in Calls :
                /\ Succeeded' = Succeeded \cup {s}
                /\ s \notin Succeeded
                /\ Len(identificationHistory') = Len(identificationHistory) + 1
                /\ outcome'[s].value \in Range(identificationHistory')
                /\ \E i \in DOMAIN identificationHistory' :
                      identificationHistory =
                          SubSeq(identificationHistory', 1, i - 1)
                          \o SubSeq(identificationHistory', i + 1,
                                    Len(identificationHistory'))]_vars
\* One call returned a result that is not a boat, another failed, and the
\* history holds the one result.
OneSuccessOneFailure ==
    /\ \E s \in Calls : pc[s] = "done" /\ outcome[s].kind = "throw"
    /\ \E s \in Calls : /\ pc[s] = "done" /\ outcome[s].kind = "return"
                        /\ ~outcome[s].value.is_boat
                        /\ identificationHistory = <<outcome[s].value>>

\* C6: every failed attempt shows exactly one alert, the error alert 'Failed to
\* identify boat: <message>'; handleCameraPress shows no alert of its own for
\* it, and the hook rethrows the error, which handleCameraPress catches.
FailureShowsOneErrorAlert ==
    \A s \in Calls :
        Failed(s) =>
            /\ outcome[s].kind = "throw"
            /\ alerts[s] = << [title |-> "Error",
                               message |-> <<"Failed to identify boat: "
                                             \o outcome[s].message>>] >>
            /\ caught[s]
\* Attempts have failed on an HTTP error, on the network and on the image.
FailuresOfEveryKind ==
    \E s \in Calls : \E t \in Calls :
        /\ Failed(s) /\ Failed(t)
        /\ outcome[s].message \in {"Invalid image", "Network request failed"}
        /\ outcome[t].message = "Failed to prepare image for upload"

\* The steps of a successful identification, in the order of the data flow.
DataFlow == <<"capture", "multipart", "post", "response", "json", "setLastResult",
              "setIdentificationHistory", "alert">>
\* The data-flow steps of a trace, in the order taken.
RECURSIVE FlowSteps(_)
FlowSteps(tr) ==
    IF tr = <<>> THEN <<>>
    ELSE (IF Head(tr) \in Range(DataFlow) THEN <<Head(tr)>> ELSE <<>>)
         \o FlowSteps(Tail(tr))

\* C7: the steps of each gesture happen in the order capture, multipart
\* construction, POST, response, JSON, state update, alert: what a call has
\* done so far is always an initial part of that order; a POST has gone out
\* only after the camera returned a non-empty URI, and the history holds only
\* results of calls that parsed a successful response.
StepsFollowDataFlow ==
    /\ \A s \in Calls :
        /\ \E n \in 0..Len(DataFlow) : FlowSteps(trace[s]) = SubSeq(DataFlow, 1, n)
        /\ issued[s] # <<>> =>
              /\ "capture" \in Range(trace[s])
              /\ Truthy(op[s].imageUri)
              /\ issued[s][1].body[1][1].value.uri = op[s].imageUri
        /\ (outcome[s].kind = "return") =>
              /\ "json" \in Range(trace[s])
              /\ outcome[s].value \in Range(identificationHistory)
              /\ alerts[s] # <<>>
    /\ Len(identificationHistory)
         = Cardinality({s \in Calls : "setIdentificationHistory" \in Range(trace[s])})
\* A gesture ran through every step of the data flow.
FullDataFlowDone == \E s \in Calls : FlowSteps(trace[s]) = DataFlow

\* C8: for a 2xx response with a JSON body, identifyBoat returns exactly the
\* parsed body and throws nothing, whatever the body's success and is_boat.
OkResponseReturnsParsedBody ==
    [][\A s \in Slots :
         (/\ pc[s] = "body" /\ pc'[s] = "done"
          /\ op[s].name = "identifyBoat"
          /\ Ok(resp[s].status) /\ resp[s].body.kind = "json") =>
            outcome'[s] = [kind |-> "return", value |-> resp[s].body.value]]_vars
\* A direct identifyBoat call returned a body whose success flag is false.
ReturnedUnsuccessfulBody ==
    /\ pc[0] = "done"
    /\ op[0].name = "identifyBoat"
    /\ outcome[0].kind = "return"
    /\ ~outcome[0].value.success /\ ~outcome[0].value.is_boat

\* The line an alert shows for a labelled field, or the set of its lines.
Lines(alert) == Range(alert.message)
\* The result the success alert of call 1 was rendered from, and the alert.
Shown == outcome[1].value
SuccessAlertShown ==
    pc[1] = "done" /\ outcome[1].kind = "return" /\ Shown.is_boat
\* The last-result alert is up for a boat (the history holds call 1's result).
LastAlertShown ==
    /\ viewAlert # None
    /\ viewAlert[1].title = "Last Result"
    /\ identificationHistory[1].is_boat
Missing(result, f) ==
    result.boat_details = None \/ result.boat_details[1][f] = Absent

\* C9 as stated: in the success alert and in the last-result alert every
\* boat-detail field shown (make, model, boat_type, year, description) and the
\* confidence reads 'Unknown' when it is absent from the result.
AbsentFieldsReadUnknown ==
    /\ SuccessAlertShown =>
          LET a == alerts[1][1]
          IN  /\ Missing(Shown, "make") => "Make: Unknown" \in Lines(a)
              /\ Missing(Shown, "model") => "Model: Unknown" \in Lines(a)
              /\ Missing(Shown, "boat_type") => "Type: Unknown" \in Lines(a)
              /\ Missing(Shown, "year") => "Year: Unknown" \in Lines(a)
              /\ Shown.confidence = Absent => "Confidence: Unknown" \in Lines(a)
              /\ Missing(Shown, "description") => a.message[Len(a.message)] = "Unknown"
    /\ LastAlertShown =>
          LET a == viewAlert[1]
              r == identificationHistory[1]
          IN  /\ Missing(r, "make") => "Make: Unknown" \in Lines(a)
              /\ Missing(r, "model") => "Model: Unknown" \in Lines(a)
              /\ Missing(r, "boat_type") => "Type: Unknown" \in Lines(a)
              /\ r.confidence = Absent => "Confidence: Unknown" \in Lines(a)
              /\ Missing(r, "description") => "Description: Unknown" \in Lines(a)

\* C9 amended: make, model, boat_type, year and the confidence read 'Unknown'
\* in the success alert, and make, model, boat_type and the confidence in the
\* last-result alert, when absent from the result (boat_details absent
\* included); an absent description is left out of the success alert, which
\* then ends with the confidence line, and reads 'No description' in the
\* last-result alert.
AbsentFieldsReadPlaceholders ==
    /\ SuccessAlertShown =>
          LET a == alerts[1][1]
          IN  /\ a.title = "Success!"
              /\ Missing(Shown, "make") => "Make: Unknown" \in Lines(a)
              /\ Missing(Shown, "model") => "Model: Unknown" \in Lines(a)
              /\ Missing(Shown, "boat_type") => "Type: Unknown" \in Lines(a)
              /\ Missing(Shown, "year") => "Year: Unknown" \in Lines(a)
              /\ Shown.confidence = Absent => "Confidence: Unknown" \in Lines(a)
              /\ Missing(Shown, "description") =>
                    /\ Len(a.message) = 7
                    /\ \E c \in {"Unknown", "", "high"} :
                          a.message[7] = "Confidence: " \o c
    /\ LastAlertShown =>
          LET a == viewAlert[1]
              r == identificationHistory[1]
          IN  /\ Missing(r, "make") => "Make: Unknown" \in Lines(a)
              /\ Missing(r, "model") => "Model: Unknown" \in Lines(a)
              /\ Missing(r, "boat_type") => "Type: Unknown" \in Lines(a)
              /\ r.confidence = Absent => "Confidence: Unknown" \in Lines(a)
              /\ Missing(r, "description") => "Description: No description" \in Lines(a)
\* Both alerts are up for a boat that came without boat_details and confidence.
BareBoatShownTwice ==
    /\ SuccessAlertShown
    /\ LastAlertShown
    /\ Shown.boat_details = None
    /\ Shown.confidence = Absent

\* The name=value pairs of a query string given as tokens.
RECURSIVE ParseQuery(_)
ParseQuery(tokens) ==
    IF Len(tokens) < 3 THEN <<>>
    ELSE << <<Decode(tokens[1]), Decode(tokens[3])>> >>
         \o ParseQuery(SubSeq(tokens, 5, Len(tokens)))
\* The values a query carries under a name, in order.
RECURSIVE ValuesOf(_, _)
ValuesOf(pairs, name) ==
    IF pairs = <<>> THEN <<>>
    ELSE (IF pairs[1][1] = name THEN <<pairs[1][2]>> ELSE <<>>)
         \o ValuesOf(Tail(pairs), name)
ListPrefix == <<API_BASE_URL, "/", "boats", "/", "identifications", "?">>
\* The direct caller called getIdentifications and its request is out.
ListRequested == op[0].name = "getIdentifications" /\ issued[0] # <<>>
\* The query of that request, and the arguments as the caller gave them.
ListQuery ==
    ParseQuery(SubSeq(issued[0][1].url, Len(ListPrefix) + 1, Len(issued[0][1].url)))
GivenPage == op[0].given[1]
GivenPerPage == op[0].given[2]
GivenFilters == IF op[0].given[3] = None THEN NoFilters ELSE op[0].given[3][1]
PageAndPerPageSerialized ==
    /\ issued[0][1].method = "GET"
    /\ SubSeq(issued[0][1].url, 1, Len(ListPrefix)) = ListPrefix
    /\ ValuesOf(ListQuery, "page")
         = <<IF GivenPage = None THEN "1" ELSE ToString(GivenPage[1])>>
    /\ ValuesOf(ListQuery, "per_page")
         = <<IF GivenPerPage = None THEN "50" ELSE ToString(GivenPerPage[1])>>
    /\ ValuesOf(ListQuery, "is_boat")
         = (IF GivenFilters.isBoat = None THEN <<>>
            ELSE <<IF GivenFilters.isBoat[1] THEN "true" ELSE "false">>)

\* C10 as stated: the request carries page and per_page always (defaults 1 and
\* 50) and each of is_boat, make, boat_type, confidence exactly once with the
\* supplied value when the filter was supplied, and not at all otherwise.
FiltersSerializedWhenSupplied ==
    ListRequested =>
        /\ PageAndPerPageSerialized
        /\ ValuesOf(ListQuery, "make")
             = (IF GivenFilters.make = Absent THEN <<>> ELSE <<GivenFilters.make>>)
        /\ ValuesOf(ListQuery, "boat_type")
             = (IF GivenFilters.boatType = Absent THEN <<>> ELSE <<GivenFilters.boatType>>)
        /\ ValuesOf(ListQuery, "confidence")
             = (IF GivenFilters.confidence = Absent THEN <<>>
                ELSE <<GivenFilters.confidence>>)

\* C10 amended: as stated, except that make, boat_type and confidence are
\* present (exactly once, with the supplied value) for the filters supplied
\* with a non-empty string, and absent for a filter that was not supplied or
\* was supplied as the empty string.
FiltersSerializedWhenNonEmpty ==
    ListRequested =>
        /\ PageAndPerPageSerialized
        /\ ValuesOf(ListQuery, "make")
             = (IF GivenFilters.make \in {Absent, ""} THEN <<>> ELSE <<GivenFilters.make>>)
        /\ ValuesOf(ListQuery, "boat_type")
             = (IF GivenFilters.boatType \in {Absent, ""} THEN <<>>
                ELSE <<GivenFilters.boatType>>)
        /\ ValuesOf(ListQuery, "confidence")
             = (IF GivenFilters.confidence \in {Absent, ""} THEN <<>>
                ELSE <<GivenFilters.confidence>>)
        /\ Len(ListQuery) = Cardinality({pair[1] : pair \in Range(ListQuery)})
        /\ {pair[1] : pair \in Range(ListQuery)}
             \subseteq {"page", "per_page", "is_boat", "make", "boat_type", "confidence"}
\* getIdentifications went out with defaults for the page, isBoat = false, a
\* make that needs encoding and an empty boatType.
ListRequestedWithFalseAndEmpty ==
    /\ ListRequested
    /\ GivenPage = None /\ GivenPerPage = None
    /\ GivenFilters.isBoat = <<FALSE>>
    /\ GivenFilters.make = "Sea Ray"
    /\ GivenFilters.boatType = ""
    /\ "Sea+Ray" \in Range(issued[0][1].url)

\* A direct HttpClient.get / post call is out with its request.
EndpointRequested == op[0].name \in {"get", "post"} /\ issued[0] # <<>>
\* The endpoint without a leading slash.
Unslashed(endpoint) ==
    IF endpoint # <<>> /\ endpoint[1] = "/"
    THEN SubSeq(endpoint, 2, Len(endpoint)) ELSE endpoint

\* C11 as stated: the URL requested is the base, a slash and the endpoint
\* without a leading slash, the same for '/x' and 'x', and it never has a
\* doubled slash at the join.
UrlJoinsWithoutDoubledSlash ==
    EndpointRequested =>
        LET url == issued[0][1].url
        IN  /\ url = <<API_BASE_URL, "/">> \o Unslashed(op[0].endpoint)
            /\ url = <<API_BASE_URL, "/">> \o Unslashed(<<"/">> \o Unslashed(op[0].endpoint))
            /\ ~(Len(url) >= 3 /\ url[2] = "/" /\ url[3] = "/")

\* C11 amended: the URL requested is the base, a slash and the endpoint with
\* one leading slash removed if it has one, so '/x' and 'x' yield the same
\* URL; the URL has no doubled slash at the join unless the endpoint begins
\* with two slashes.
UrlJoinsStrippingOneSlash ==
    EndpointRequested =>
        LET url == issued[0][1].url
            e == op[0].endpoint
        IN  /\ url = <<API_BASE_URL, "/">> \o Unslashed(e)
            /\ url = <<API_BASE_URL, "/">> \o Unslashed(<<"/">> \o Unslashed(e))
            /\ (Len(url) >= 3 /\ url[2] = "/" /\ url[3] = "/")
                  <=> (Len(e) >= 2 /\ e[1] = "/" /\ e[2] = "/")
\* A request is out for an endpoint given with a leading slash.
SlashedEndpointRequested ==
    /\ EndpointRequested
    /\ op[0].endpoint = <<"/", "boats", "/", "identification-fields">>
    /\ issued[0][1].url = <<API_BASE_URL, "/", "boats", "/", "identification-fields">>

\* C12: every identify request is a POST to boats/identify whose multipart body
\* has exactly the parts image, requested_fields and store_results, where
\* requested_fields is the caller's fields joined by commas (by default
\* make,model,description,boat_type) and store_results the flag as a string
\* (by default 'true').
IdentifyRequestHasThreeParts ==
    \A s \in Slots :
        op[s].name = "identifyBoat" =>
            \A i \in DOMAIN issued[s] :
                LET request == issued[s][i]
                    parts == request.body[1]
                    fields == op[s].given[1]
                    store == op[s].given[2]
                IN  /\ request.method = "POST"
                    /\ request.url = <<API_BASE_URL, "/", "boats", "/", "identify">>
                    /\ [j \in DOMAIN parts |-> parts[j].name]
                         = <<"image", "requested_fields", "store_results">>
                    /\ parts[1].value.uri = op[s].imageUri
                    /\ parts[2].value =
                         CASE fields = <<>> -> "make,model,description,boat_type"
                           [] fields = << <<>> >> -> ""
                           [] fields = << <<"make">> >> -> "make"
                           [] fields = << <<"make", "model", "year">> >> -> "make,model,year"
                           [] fields = << <<"make", "model", "description", "boat_type",
                                            "year">> >>
                                -> "make,model,description,boat_type,year"
                    /\ parts[3].value =
                         CASE store = <<>> -> "true"
                           [] store = <<TRUE>> -> "true"
                           [] store = <<FALSE>> -> "false"
\* An identify request is out for a caller that gave three fields and
\* storeResults = false.
IdentifyRequestedWithoutStoring ==
    /\ op[0].name = "identifyBoat"
    /\ issued[0] # <<>>
    /\ op[0].given = <<Some(<<"make", "model", "year">>), Some(FALSE)>>

\* The call in slot s has started and not yet settled.
InProgress(s) == pc[s] \in {"camera", "blob", "fetch", "body"}

\* C13: isProcessing is true exactly while some captureAndIdentify call has
\* started and not yet settled.
ProcessingIffCallInProgress ==
    isProcessing <=> \E s \in Calls : InProgress(s)

\* C14: whenever no call is in progress and the history is non-empty, its first
\* entry (the one 'View Last Result' shows) equals lastResult and is the result
\* of the identification that succeeded most recently; lastResult is null
\* exactly when the history is empty.
FirstEntryIsLastResult ==
    /\ [](/\ lastResult = None <=> identificationHistory = <<>>
          /\ (identificationHistory # <<>> /\ \A s \in Calls : ~InProgress(s)) =>
                lastResult = <<identificationHistory[1]>>)
    /\ [][\/ \E s \in Calls :
                /\ s \notin Succeeded /\ s \in Succeeded'
                /\ identificationHistory'[1] = outcome'[s].value
                /\ lastResult' = <<outcome'[s].value>>
          \/ /\ Succeeded' = Succeeded
             /\ lastResult' = lastResult
             /\ identificationHistory' = identificationHistory]_vars
\* Two identifications with different results have succeeded, none is in
\* progress, and the last-result alert is up for the later one.
TwoResultsLatestShown ==
    /\ Len(identificationHistory) = 2
    /\ identificationHistory[1] # identificationHistory[2]
    /\ \A s \in Calls : ~InProgress(s)
    /\ viewAlert = <<LastResultAlert(<<lastResult[1]>>)>>
    /\ viewAlert[1].title = "Last Result"

\* Whether launchCameraFunction has to resolve to null for a picker response:
\* the user cancelled, the picker reported an error, or there is no first
\* asset with a uri.
NothingCaptured(response) ==
    \/ response.didCancel
    \/ response.errorMessage # Absent
    \/ response.assets = None
    \/ response.assets[1] = <<>>
    \/ response.assets[1][1].uri = Absent

\* C15: launchCameraFunction resolves once per call, to null when the user
\* cancels, the picker reports an error or the first asset has no uri, and to
\* the first asset's uri otherwise.  When it resolves to null the call issues
\* no request, leaves lastResult and the history as they were and fails with
\* 'No image captured'.
NullCaptureFailsWithoutRequest ==
    /\ [][\A s \in Calls :
            (pc[s] = "camera" /\ pc'[s] # "camera") =>
                /\ delivered[s].camera = None
                /\ delivered'[s].camera # None
                /\ IF NothingCaptured(delivered'[s].camera[1])
                   THEN /\ pc'[s] = "done"
                        /\ outcome'[s] = [kind |-> "throw", message |-> "No image captured"]
                        /\ issued' = issued
                        /\ lastResult' = lastResult
                        /\ identificationHistory' = identificationHistory
                   ELSE /\ pc'[s] = "blob"
                        /\ outcome'[s] = outcome[s]
                        /\ op'[s].imageUri = delivered'[s].camera[1].assets[1][1].uri]_vars
    /\ [][\A s \in Calls :
            delivered[s].camera # None => delivered'[s].camera = delivered[s].camera]_vars
\* After one identification succeeded the user cancelled the camera of the
\* next: that call is over without a request and the result is still there.
CancelledAfterSuccess ==
    \E s \in Calls : \E t \in Calls :
        /\ pc[s] = "done"
        /\ delivered[s].camera # None /\ delivered[s].camera[1].didCancel
        /\ issued[s] = <<>>
        /\ outcome[t].kind = "return"
        /\ lastResult = <<outcome[t].value>>
        /\ identificationHistory = <<outcome[t].value>>

\* C16: if fetching the captured image fails (the fetch rejects or the response
\* is not ok), the call fails with 'Failed to prepare image for upload' in
\* place of the original error, no POST to boats/identify is issued, and the
\* history and lastResult stay as they were.
ImageFetchFailureStopsUpload ==
    [][\A s \in Calls :
         (/\ pc[s] = "blob" /\ pc'[s] # "blob"
          /\ delivered'[s].image \in {<<"fetch_rejected">>, <<"not_ok">>}) =>
            /\ pc'[s] = "done"
            /\ outcome'[s] = [kind |-> "throw",
                              message |-> "Failed to prepare image for upload"]
            /\ issued'[s] = <<>>
            /\ identificationHistory' = identificationHistory
            /\ lastResult' = lastResult]_vars
\* After one identification succeeded the image of the next could not be
\* fetched: that call is over without a request and the result is still there.
ImageFetchFailedAfterSuccess ==
    \E s \in Calls : \E t \in Calls :
        /\ pc[s] = "done"
        /\ delivered[s].image = <<"not_ok">>
        /\ issued[s] = <<>>
        /\ outcome[t].kind = "return"
        /\ lastResult = <<outcome[t].value>>
        /\ identificationHistory = <<outcome[t].value>>

====
